---- MODULE Spec2Model ----
(***************************************************************************)
(* Tenant directory and tenant-scoped store of the restaurant back office: *)
(* the server actions of src/src/lib/server/actions.ts over the tables of  *)
(* the drizzle schema (src/unnamed/part_001, imported by the actions as    *)
(* './db/schema'), the connection singleton of db/index.ts, the login form *)
(* and the dashboard layout.                                               *)
(*                                                                         *)
(* Spec      every server action as one atomic call (calls in sequence).   *)
(* SpecConc  two callers whose calls interleave at each awaited database   *)
(*           statement.                                                    *)
(* SpecStore registration, restaurant deletion, addUser, catalog inserts.  *)
(* SpecUsers registration and the user actions, with more staff.           *)
(* SpecLists registration, catalog inserts, list actions and deleteSales.  *)
(* SpecCatalog registration, products and sales, the read of a sale.       *)
(* SpecUpdates registration, the catalog inserts and the catalog updates.  *)
(* SpecAdmin registration and updateRestaurant with a new password.        *)
(* SpecRace  registration, addUser, and deleteUser calls that interleave   *)
(*           at each awaited statement.                                    *)
(* SpecDb    the getDb calls of one server process.                        *)
(* SpecLogin registration, restaurant deletion, the login form and the     *)
(*           dashboard layout.                                             *)
(***************************************************************************)
EXTENDS Integers, Sequences, FiniteSets, TLC

\* Number of identities (crypto.randomUUID() results) a behaviour may draw.
MaxIds == 4

\* Number of identities a behaviour of SpecConc may draw.
MaxConcIds == 4

\* Number of identities a behaviour of SpecStore may draw.
MaxStoreIds == 6

\* Number of identities a behaviour of SpecUsers may draw.
MaxUserIds == 5

\* Number of identities a behaviour of SpecLists may draw.
MaxListIds == 6

\* Number of identities a behaviour of SpecCatalog or SpecUpdates may draw.
MaxCatalogIds == 5

\* Number of identities a behaviour of SpecRace may draw.
MaxRaceIds == 5

\* Number of getDb calls a behaviour of SpecDb makes.
MaxGetDbCalls == 6

Emails == {"ana@x.com", "bob@x.com", "eva@x.com"}

\* users.role: mysqlEnum('role', [...])
Roles == {"superadmin", "admin", "seller", "waiter"}

\* An id that matches no row.
NoSuchId == 0

\* The scope 'all' of the list actions.
All == -1

\* Passwords a caller may supply: one shorter than 6 characters, others not.
PasswordInputs == {"12345", "123456", "newsecret"}

InitialPassword == "secret"

VARIABLES
    restaurants,  \* rows of restaurante_simple_restaurants
    users,        \* rows of restaurante_simple_users
    products,     \* rows of restaurante_simple_products
    categories,   \* rows of restaurante_simple_categories
    customers,    \* rows of restaurante_simple_customers
    purchases,    \* rows of restaurante_simple_purchases
    sales,        \* rows of restaurante_simple_sales
    nextId,       \* the next identity crypto.randomUUID() returns
    last,         \* the last completed call: its operation, the id it was about,
                  \* its outcome and the rows it returned
    registered,   \* log of the successful createRestaurant calls, in order
    calls,        \* SpecConc: each caller's call in flight and its locals
    process,      \* the server process: DATABASE_URL, the pool and global.db
    returned,     \* log of what the getDb calls returned, in order
    sessionStorage, \* the browser's session storage
    layout        \* the page shown and the state of the dashboard layout

\* What lives outside the database: the server process and the browser.
runtime == <<process, returned, sessionStorage, layout>>

vars == <<restaurants, users, products, categories, customers, purchases, sales,
          nextId, last, registered, calls, runtime>>

catalog == <<products, categories, customers, purchases, sales>>

----------------------------------------------------------------------------
\* The database: the tables and the constraints the schema declares.

DB == [restaurants |-> restaurants, users |-> users, products |-> products,
       categories |-> categories, customers |-> customers,
       purchases |-> purchases, sales |-> sales]

Ids(rows) == {r.id : r \in rows}

\* A count that finds no row.
EmailCountNone(us, email) == 0

\* select count() from users where email = ...
EmailCount(us, email) == Cardinality({u \in us : u.email = email})

\* The same without not(eq(users.id, id)).
AnyUserWithEmail(us, email, id) == \E u \in us : u.email = email

\* findFirst(where: and(eq(users.email, email), not(eq(users.id, id))))
OtherUserWithEmail(us, email, id) == \E u \in us : u.email = email /\ u.id # id

\* select count() from users where role = 'superadmin'
SuperadminCount(us) == Cardinality({u \in us : u.role = "superadmin"})

\* A unique index on (email, restaurant_id) in place of the one on email.
UniqueEmailPerRestaurantViolated(us, row) ==
    \E u \in us : u.id # row.id /\ u.email = row.email
                  /\ u.restaurantId = row.restaurantId

\* email: varchar(...).notNull().unique(): the index spans the whole table.
UniqueEmailViolated(us, row) == \E u \in us : u.id # row.id /\ u.email = row.email

\* restaurantId: references(() => restaurants.id)
\* A restaurantId column without its reference to restaurants.id.
ForeignKeyUnchecked(rs, row) == FALSE

ForeignKeyViolated(rs, row) == row.restaurantId \notin Ids(rs)

\* insert into users: refused by the unique index or by the foreign key.
InsertUser(db, row) ==
    IF UniqueEmailViolated(db.users, row)
    THEN [db |-> db, result |-> "duplicate_entry"]
    ELSE IF ForeignKeyViolated(db.restaurants, row)
    THEN [db |-> db, result |-> "foreign_key"]
    ELSE [db |-> [db EXCEPT !.users = @ \cup {row}], result |-> "ok"]

\* Whether a Partial<> (or an optional parameter) carries the field: data.keys
\* is Object.keys(data), and a field left out holds a filler of its type.
Has(data, field) == field \in data.keys

\* .set(userData): the fields the Partial<> carries overwrite the row's.
SetUserFields(u, data) ==
    [id |-> u.id,
     email |-> IF Has(data, "email") THEN data.email ELSE u.email,
     password |-> IF Has(data, "password") THEN data.password ELSE u.password,
     role |-> IF Has(data, "role") THEN data.role ELSE u.role,
     restaurantId |-> IF Has(data, "restaurantId") THEN data.restaurantId
                                                   ELSE u.restaurantId]

\* update users set ... where id = ...: refused by the same constraints.
UpdateUserRow(db, id, data) ==
    LET new == {IF u.id = id THEN SetUserFields(u, data) ELSE u : u \in db.users}
    IN IF \E u \in new : u.id = id /\ UniqueEmailViolated(new, u)
       THEN [db |-> db, result |-> "duplicate_entry"]
       ELSE IF \E u \in new : u.id = id /\ ForeignKeyViolated(db.restaurants, u)
       THEN [db |-> db, result |-> "foreign_key"]
       ELSE [db |-> [db EXCEPT !.users = new], result |-> "ok"]

\* The statements run one by one, outside a transaction: what a body wrote
\* before it threw stays.
TransactionNoRollback(before, after, result) == [db |-> after, result |-> result]

\* db.transaction(async (tx) => ...): a body that throws is rolled back.
Transaction(before, after, result) ==
    IF result = "ok" THEN [db |-> after, result |-> "ok"]
                     ELSE [db |-> before, result |-> result]

----------------------------------------------------------------------------
\* Restaurant actions.

UserRow(id, data, role, restaurantId) ==
    [id |-> id, email |-> data.email, password |-> data.password,
     role |-> role, restaurantId |-> restaurantId]

\* The transaction body of createRestaurant: insert the restaurant, then its
\* administrator, 'superadmin' for the first restaurant and 'admin' otherwise.
CreateRestaurantTx(db, restaurantData, adminData, isFirstRestaurant, restaurantId, userId) ==
    LET db1 == [db EXCEPT !.restaurants =
                    @ \cup {[id |-> restaurantId, name |-> restaurantData.name]}]
        ins == InsertUser(db1, UserRow(userId, adminData,
                   IF isFirstRestaurant THEN "superadmin" ELSE "admin", restaurantId))
    IN Transaction(db, ins.db, ins.result)

IsFirstRestaurant(db) == Cardinality(db.restaurants) = 0

createRestaurant(db, restaurantData, adminData, restaurantId, userId) ==
    IF EmailCount(db.users, adminData.email) > 0
    THEN [db |-> db, result |-> "email_in_use"]
    ELSE CreateRestaurantTx(db, restaurantData, adminData, IsFirstRestaurant(db),
                            restaurantId, userId)

\* .set(restaurantData) on one restaurant row.
SetRestaurantFields(r, data) ==
    [id |-> r.id, name |-> IF Has(data, "name") THEN data.name ELSE r.name]

\* updateData that takes whatever password is supplied.
AdminUpdateDataAnyPassword(adminData) ==
    [keys |-> {"email"} \cup (IF Has(adminData, "password") THEN {"password"} ELSE {}),
     email |-> adminData.email, password |-> adminData.password,
     role |-> "", restaurantId |-> NoSuchId]

\* updateData of updateRestaurant: the email always, the password only when
\* one of at least 6 characters is supplied.
AdminUpdateData(adminData) ==
    [keys |-> {"email"} \cup
              (IF Has(adminData, "password") /\ Len(adminData.password) >= 6
               THEN {"password"} ELSE {}),
     email |-> adminData.email, password |-> adminData.password,
     role |-> "", restaurantId |-> NoSuchId]

\* The first statement of the transaction: the restaurant fields, when any.
RestaurantWrite(db, id, restaurantData) ==
    IF Cardinality(restaurantData.keys) > 0
    THEN [db EXCEPT !.restaurants =
            {IF r.id = id THEN SetRestaurantFields(r, restaurantData) ELSE r : r \in @}]
    ELSE db

\* The last statement of the transaction: the administrator's row.
AdminWrite(before, db1, adminData) ==
    LET upd == UpdateUserRow(db1, adminData.id, AdminUpdateData(adminData))
    IN Transaction(before, upd.db, upd.result)

updateRestaurant(db, id, restaurantData, adminData) ==
    LET db1 == RestaurantWrite(db, id, restaurantData)
    IN IF Has(adminData, "id")
       THEN IF OtherUserWithEmail(db1.users, adminData.email, adminData.id)
            THEN Transaction(db, db1, "email_in_use")
            ELSE AdminWrite(db, db1, adminData)
       ELSE Transaction(db, db1, "ok")

\* onDelete: 'cascade' of every table that references restaurants.id.
Cascade(rows, id) == {r \in rows : r.restaurantId # id}

\* The same with the sales left behind.
deleteRestaurantKeepingSales(db, id) ==
    [db |-> [restaurants |-> {r \in db.restaurants : r.id # id},
             users |-> Cascade(db.users, id),
             products |-> Cascade(db.products, id),
             categories |-> Cascade(db.categories, id),
             customers |-> Cascade(db.customers, id),
             purchases |-> Cascade(db.purchases, id),
             sales |-> db.sales],
     result |-> "ok"]

deleteRestaurant(db, id) ==
    [db |-> [restaurants |-> {r \in db.restaurants : r.id # id},
             users |-> Cascade(db.users, id),
             products |-> Cascade(db.products, id),
             categories |-> Cascade(db.categories, id),
             customers |-> Cascade(db.customers, id),
             purchases |-> Cascade(db.purchases, id),
             sales |-> Cascade(db.sales, id)],
     result |-> "ok"]

----------------------------------------------------------------------------
\* User actions.

addUser(db, userData, userId) ==
    IF EmailCount(db.users, userData.email) > 0
    THEN [db |-> db, result |-> "email_in_use"]
    ELSE InsertUser(db, UserRow(userId, userData, userData.role, userData.restaurantId))

updateUser(db, id, userData) ==
    IF Has(userData, "email") /\ OtherUserWithEmail(db.users, userData.email, id)
    THEN [db |-> db, result |-> "email_in_use"]
    ELSE UpdateUserRow(db, id, userData)

\* The role of the stored user with this id, "" when there is none
\* (currentUser?.role of an undefined currentUser).
RoleOf(us, id) == IF \E u \in us : u.id = id
                  THEN (CHOOSE u \in us : u.id = id).role ELSE ""

\* The same with the admin's check of the target's role left out.
DeleteUserPolicyNoRoleCheck(us, userToDelete, currentUserRole) ==
    IF currentUserRole = "superadmin"
    THEN IF userToDelete.role = "superadmin" /\ SuperadminCount(us) <= 1
         THEN "last_superadmin" ELSE "ok"
    ELSE IF currentUserRole = "admin"
    THEN IF Cardinality({u \in us : u.restaurantId = userToDelete.restaurantId}) <= 1
         THEN "last_user" ELSE "ok"
    ELSE "no_permission"

\* The same with every actor that is neither superadmin nor admin let through.
DeleteUserPolicyAnyActor(us, userToDelete, currentUserRole) ==
    IF currentUserRole = "superadmin"
    THEN IF userToDelete.role = "superadmin" /\ SuperadminCount(us) <= 1
         THEN "last_superadmin" ELSE "ok"
    ELSE IF currentUserRole = "admin"
    THEN IF userToDelete.role \in {"admin", "superadmin"}
         THEN "no_permission_admin"
         ELSE IF Cardinality({u \in us : u.restaurantId = userToDelete.restaurantId}) <= 1
              THEN "last_user" ELSE "ok"
    ELSE "ok"

\* The decision of deleteUser once the target row is found.
DeleteUserPolicy(us, userToDelete, currentUserRole) ==
    IF currentUserRole = "superadmin"
    THEN IF userToDelete.role = "superadmin" /\ SuperadminCount(us) <= 1
         THEN "last_superadmin" ELSE "ok"
    ELSE IF currentUserRole = "admin"
    THEN IF userToDelete.role \in {"admin", "superadmin"}
         THEN "no_permission_admin"
         ELSE IF Cardinality({u \in us : u.restaurantId = userToDelete.restaurantId}) <= 1
              THEN "last_user" ELSE "ok"
    ELSE "no_permission"

\* deleteUser without its first check (id === currentUserId).
deleteUserNoSelfCheck(db, id, currentUserId) ==
    IF ~ \E u \in db.users : u.id = id THEN [db |-> db, result |-> "not_found"]
    ELSE LET userToDelete == CHOOSE u \in db.users : u.id = id
             decision == DeleteUserPolicy(db.users, userToDelete,
                                          RoleOf(db.users, currentUserId))
         IN IF decision # "ok" THEN [db |-> db, result |-> decision]
            ELSE [db |-> [db EXCEPT !.users = {u \in @ : u.id # id}], result |-> "ok"]

deleteUser(db, id, currentUserId) ==
    IF id = currentUserId THEN [db |-> db, result |-> "self_delete"]
    ELSE IF ~ \E u \in db.users : u.id = id THEN [db |-> db, result |-> "not_found"]
    ELSE LET userToDelete == CHOOSE u \in db.users : u.id = id
             decision == DeleteUserPolicy(db.users, userToDelete,
                                          RoleOf(db.users, currentUserId))
         IN IF decision # "ok" THEN [db |-> db, result |-> decision]
            ELSE [db |-> [db EXCEPT !.users = {u \in @ : u.id # id}], result |-> "ok"]

----------------------------------------------------------------------------
\* Catalog actions. Amounts are in cents and dates in milliseconds.

\* decimal(10, 2): the amount as the column holds and returns it, the text
\* "units.cents".
ToDecimal(amount) == [units |-> amount \div 100, cents |-> amount % 100]

\* Number(...) of a decimal column's text.
Number(decimal) == decimal.units * 100 + decimal.cents

\* timestamp(...) without fsp: the column keeps whole seconds, and a value
\* with a fractional part is rounded to the nearest one.
ToTimestamp(date) == ((date + 500) \div 1000) * 1000

InsertRow(db, table, row) ==
    IF ForeignKeyViolated(db.restaurants, row)
    THEN [db |-> db, result |-> "foreign_key"]
    ELSE [db |-> [db EXCEPT ![table] = @ \cup {row}], result |-> "ok"]

\* update ... set ... where id = ...: `new` is the table with the row of that
\* id rewritten; refused when the row then references no restaurant.
WriteRows(db, table, new) ==
    IF \E r \in new : ForeignKeyViolated(db.restaurants, r)
    THEN [db |-> db, result |-> "foreign_key"]
    ELSE [db |-> [db EXCEPT ![table] = new], result |-> "ok"]

\* select without its where clause.
ForRestaurantUnfiltered(rows, restaurantId) == rows

\* restaurantId === 'all' ? select().from(table)
\*                        : findMany({ where: eq(table.restaurantId, restaurantId) })
ForRestaurant(rows, restaurantId) ==
    IF restaurantId = All THEN rows ELSE {r \in rows : r.restaurantId = restaurantId}

getProductsForRestaurant(db, restaurantId) == ForRestaurant(db.products, restaurantId)

addProduct(db, product, id) ==
    InsertRow(db, "products", [id |-> id, name |-> product.name,
                               price |-> ToDecimal(product.price),
                               restaurantId |-> product.restaurantId])

\* .set(product) on one product row: every column the object carries.
SetProductFields(p, data) ==
    [id |-> p.id,
     name |-> IF Has(data, "name") THEN data.name ELSE p.name,
     price |-> IF Has(data, "price") THEN ToDecimal(data.price) ELSE p.price,
     restaurantId |-> IF Has(data, "restaurantId") THEN data.restaurantId
                                                   ELSE p.restaurantId]

\* The same with the lines of the stored sales following the product's price.
updateProductRewritingSales(db, id, product) ==
    LET out == WriteRows(db, "products",
                  {IF p.id = id THEN SetProductFields(p, product) ELSE p : p \in db.products})
        Line(item) == IF item.id = id /\ Has(product, "price")
                      THEN [item EXCEPT !.price = product.price] ELSE item
    IN IF out.result # "ok" THEN out
       ELSE [db |-> [out.db EXCEPT !.sales =
                        {[s EXCEPT !.items = [i \in DOMAIN s.items |-> Line(s.items[i])]]
                            : s \in @}],
             result |-> "ok"]

updateProduct(db, id, product) ==
    WriteRows(db, "products",
              {IF p.id = id THEN SetProductFields(p, product) ELSE p : p \in db.products})

deleteProduct(db, id) ==
    [db |-> [db EXCEPT !.products = {p \in @ : p.id # id}], result |-> "ok"]

getCategoriesForRestaurant(db, restaurantId) == ForRestaurant(db.categories, restaurantId)

addCategory(db, category, id) ==
    InsertRow(db, "categories", [id |-> id, name |-> category.name,
                                 restaurantId |-> category.restaurantId])

\* .set(...) on a row of name and restaurantId (a category, a customer).
SetNamedFields(r, data) ==
    [id |-> r.id,
     name |-> IF Has(data, "name") THEN data.name ELSE r.name,
     restaurantId |-> IF Has(data, "restaurantId") THEN data.restaurantId
                                                   ELSE r.restaurantId]

updateCategory(db, id, category) ==
    WriteRows(db, "categories",
              {IF r.id = id THEN SetNamedFields(r, category) ELSE r : r \in db.categories})

getCustomersForRestaurant(db, restaurantId) == ForRestaurant(db.customers, restaurantId)

addCustomer(db, customer, id) ==
    InsertRow(db, "customers", [id |-> id, name |-> customer.name,
                                restaurantId |-> customer.restaurantId])

updateCustomer(db, id, customer) ==
    WriteRows(db, "customers",
              {IF r.id = id THEN SetNamedFields(r, customer) ELSE r : r \in db.customers})

\* result.map(p => ({...p, unitPrice: Number(p.unitPrice)}))
getPurchasesForRestaurant(db, restaurantId) ==
    {[p EXCEPT !.unitPrice = Number(@)] : p \in ForRestaurant(db.purchases, restaurantId)}

addPurchase(db, purchase, id) ==
    InsertRow(db, "purchases", [id |-> id, productName |-> purchase.productName,
                                unitPrice |-> ToDecimal(purchase.unitPrice),
                                restaurantId |-> purchase.restaurantId])

SetPurchaseFields(p, data) ==
    [id |-> p.id,
     productName |-> IF Has(data, "productName") THEN data.productName
                                                 ELSE p.productName,
     unitPrice |-> IF Has(data, "unitPrice") THEN ToDecimal(data.unitPrice)
                                             ELSE p.unitPrice,
     restaurantId |-> IF Has(data, "restaurantId") THEN data.restaurantId
                                                   ELSE p.restaurantId]

\* The refreshed row is read with `!`: when the id matches no row the update
\* changes nothing and reading the field of undefined throws.
updatePurchase(db, id, purchase) ==
    LET out == WriteRows(db, "purchases",
                  {IF p.id = id THEN SetPurchaseFields(p, purchase) ELSE p
                      : p \in db.purchases})
    IN IF out.result = "ok" /\ id \notin Ids(db.purchases)
       THEN [db |-> db, result |-> "type_error"] ELSE out

\* What a read makes of a sales row: items as OrderItem[] (the JSON document as
\* parsed, an array of objects in the order written), totalPrice as a number.
AsSale(s) == [s EXCEPT !.totalPrice = Number(@)]

getSalesForRestaurant(db, restaurantId) ==
    {AsSale(s) : s \in ForRestaurant(db.sales, restaurantId)}

\* The sale with this id, or nothing (null).
getSaleById(db, id) == {AsSale(s) : s \in {r \in db.sales : r.id = id}}

addSale(db, sale, id) ==
    InsertRow(db, "sales", [id |-> id, items |-> sale.items,
                            totalPrice |-> ToDecimal(sale.totalPrice),
                            status |-> sale.status,
                            saleDate |-> ToTimestamp(sale.saleDate),
                            restaurantId |-> sale.restaurantId])

SetSaleFields(r, data) ==
    [id |-> r.id,
     items |-> IF Has(data, "items") THEN data.items ELSE r.items,
     totalPrice |-> IF Has(data, "totalPrice") THEN ToDecimal(data.totalPrice)
                                               ELSE r.totalPrice,
     status |-> IF Has(data, "status") THEN data.status ELSE r.status,
     saleDate |-> IF Has(data, "saleDate") THEN ToTimestamp(data.saleDate)
                                           ELSE r.saleDate,
     restaurantId |-> IF Has(data, "restaurantId") THEN data.restaurantId
                                                   ELSE r.restaurantId]

updateSale(db, id, sale) ==
    LET out == WriteRows(db, "sales",
                  {IF r.id = id THEN SetSaleFields(r, sale) ELSE r : r \in db.sales})
    IN IF out.result = "ok" /\ id \notin Ids(db.sales)
       THEN [db |-> db, result |-> "type_error"] ELSE out

\* update without its where clause.
updateSaleStatusOfEverySale(db, id, status) ==
    IF id \notin Ids(db.sales) THEN [db |-> db, result |-> "type_error"]
    ELSE [db |-> [db EXCEPT !.sales = {[r EXCEPT !.status = status] : r \in @}],
          result |-> "ok"]

\* .set({ status })
updateSaleStatus(db, id, status) ==
    IF id \notin Ids(db.sales) THEN [db |-> db, result |-> "type_error"]
    ELSE [db |-> [db EXCEPT !.sales = {IF r.id = id THEN [r EXCEPT !.status = status]
                                                   ELSE r : r \in @}],
          result |-> "ok"]

\* delete without its where clause.
deleteSalesOfEverySale(db, ids) ==
    IF ids = {} THEN [db |-> db, result |-> "ok"]
    ELSE [db |-> [db EXCEPT !.sales = {}], result |-> "ok"]

\* An empty list returns before the statement; otherwise where id in (ids).
deleteSales(db, ids) ==
    IF ids = {} THEN [db |-> db, result |-> "ok"]
    ELSE [db |-> [db EXCEPT !.sales = {r \in @ : r.id \notin ids}], result |-> "ok"]

----------------------------------------------------------------------------
\* The connection singleton (db/index.ts). getDb has no await in its body: a
\* call runs from its first statement to its return without interleaving.

\* global.db, or the module's pool, before it is assigned.
Undefined == 0

\* What a getDb call that throws leaves in `returned`.
Threw == -1

\* DATABASE_URL: not set, set to a text that is no URL, set to a URL.
DatabaseUrls == {"", "restaurante", "mysql://app@db/restaurante"}

\* mysql.createPool parses the uri and throws on a text that is no URL.
CreatePoolThrows(uri) == uri # "mysql://app@db/restaurante"

\* getDb without the test of global.db.
getDbWithoutCache(p) ==
    IF p.databaseUrl = "" THEN [process |-> p, result |-> Threw]
    ELSE IF p.pool = Undefined /\ CreatePoolThrows(p.databaseUrl)
    THEN [process |-> p, result |-> Threw]
    ELSE LET withPool == IF p.pool = Undefined
                         THEN [p EXCEPT !.pool = p.poolsCreated + 1,
                                        !.poolsCreated = @ + 1]
                         ELSE p
             db == p.instancesCreated + 1
         IN [process |-> [withPool EXCEPT !.globalDb = db, !.instancesCreated = db],
             result |-> db]

\* Pools and drizzle instances are numbered in the order of their creation.
getDb(p) ==
    IF p.globalDb # Undefined THEN [process |-> p, result |-> p.globalDb]
    ELSE IF p.databaseUrl = "" THEN [process |-> p, result |-> Threw]
    ELSE IF p.pool = Undefined /\ CreatePoolThrows(p.databaseUrl)
    THEN [process |-> p, result |-> Threw]
    ELSE LET withPool == IF p.pool = Undefined
                         THEN [p EXCEPT !.pool = p.poolsCreated + 1,
                                        !.poolsCreated = @ + 1]
                         ELSE p
             db == p.instancesCreated + 1
         IN [process |-> [withPool EXCEPT !.globalDb = db, !.instancesCreated = db],
             result |-> db]

----------------------------------------------------------------------------
\* The calls a behaviour makes, and what each is given.

NoKeys == {}

NewRestaurantInputs == {[keys |-> {"name"}, name |-> "Mar"]}

PartialRestaurantInputs == {[keys |-> {"name"}, name |-> "Sol"], [keys |-> NoKeys, name |-> ""]}

NewAdminInputs == {[email |-> e, password |-> InitialPassword] : e \in Emails}

UserIdInputs == Ids(users) \cup {NoSuchId}

RestaurantIdInputs == Ids(restaurants) \cup {NoSuchId}

\* adminData of updateRestaurant: left out, or {id, email} with or without a password.
NoAdminData == [keys |-> NoKeys, id |-> NoSuchId, email |-> "", password |-> ""]

AdminDataInputs ==
    {NoAdminData}
    \cup {[keys |-> {"id", "email"}, id |-> i, email |-> e, password |-> ""]
            : i \in UserIdInputs, e \in Emails}

AdminPasswordInputs ==
    {[keys |-> {"id", "email", "password"}, id |-> i, email |-> e, password |-> pw]
        : i \in UserIdInputs, e \in Emails, pw \in PasswordInputs}

NewUserInputs ==
    {[email |-> e, password |-> InitialPassword, role |-> r, restaurantId |-> rid]
        : e \in Emails, r \in Roles, rid \in RestaurantIdInputs}

\* userData of updateUser: a new email or a new role.
UserDataInputs ==
    {[keys |-> {"email"}, email |-> e, password |-> "", role |-> "",
      restaurantId |-> NoSuchId] : e \in Emails}
    \cup {[keys |-> {"role"}, email |-> "", password |-> "", role |-> r,
           restaurantId |-> NoSuchId] : r \in Roles}

\* The callers of SpecConc.
Callers == {1, 2}

\* A caller's call in flight: where it stands and its locals.
Call(pc) ==
    [pc |-> pc, id |-> NoSuchId,
     restaurantData |-> [keys |-> NoKeys, name |-> ""],
     userData |-> [keys |-> NoKeys, email |-> "", password |-> "", role |-> "",
                   restaurantId |-> NoSuchId],
     isFirstRestaurant |-> FALSE,
     currentUserId |-> NoSuchId, currentUserRole |-> ""]

\* sessionStorage.getItem of a key that is not stored.
Null == -2

EmptyStorage ==
    [loggedInUser |-> {}, activeRestaurantId |-> Null, loggedInRestaurant |-> Null]

\* The state of DashboardLayout as useState initialises it, on this route.
Unmounted(route) ==
    [route |-> route, isHydrated |-> FALSE, user |-> {}, activeRestaurantId |-> Null]

\* The login form, on the home page.
LoginPage == Unmounted("/")

\* A caller between calls.
IdleCall == Call("idle")

Commit(out) ==
    /\ restaurants' = out.db.restaurants
    /\ users' = out.db.users
    /\ products' = out.db.products
    /\ categories' = out.db.categories
    /\ customers' = out.db.customers
    /\ purchases' = out.db.purchases
    /\ sales' = out.db.sales

\* What the call leaves in `last`: the operation, its outcome and the id it
\* was about (the row created, updated or deleted).
Returned(op, out, id) == [op |-> op, result |-> out.result, id |-> id, rows |-> {}]

Init ==
    /\ restaurants = {}
    /\ users = {}
    /\ products = {}
    /\ categories = {}
    /\ customers = {}
    /\ purchases = {}
    /\ sales = {}
    /\ nextId = 1
    /\ last = [op |-> "none", result |-> "ok", id |-> NoSuchId, rows |-> {}]
    /\ registered = << >>
    /\ calls = [c \in Callers |-> IdleCall]
    /\ process = [databaseUrl |-> "mysql://app@db/restaurante", pool |-> Undefined,
                  globalDb |-> Undefined, poolsCreated |-> 0, instancesCreated |-> 0]
    /\ returned = << >>
    /\ sessionStorage = EmptyStorage
    /\ layout = LoginPage

CreateRestaurant(restaurantData, adminData) ==
    LET out == createRestaurant(DB, restaurantData, adminData, nextId, nextId + 1)
    IN /\ out.result = "ok" => nextId + 1 <= MaxIds
       /\ Commit(out)
       /\ nextId' = IF out.result = "ok" THEN nextId + 2 ELSE nextId
       /\ registered' = IF out.result = "ok"
                        THEN Append(registered, RoleOf(out.db.users, nextId + 1))
                        ELSE registered
       /\ last' = Returned("createRestaurant", out,
                           IF out.result = "ok" THEN nextId ELSE NoSuchId)
       /\ UNCHANGED <<calls, runtime>>

UpdateRestaurant(id, restaurantData, adminData) ==
    LET out == updateRestaurant(DB, id, restaurantData, adminData)
    IN /\ Commit(out)
       /\ last' = Returned("updateRestaurant", out, id)
       /\ UNCHANGED <<nextId, registered, calls, runtime>>

DeleteRestaurant(id) ==
    LET out == deleteRestaurant(DB, id)
    IN /\ Commit(out)
       /\ last' = Returned("deleteRestaurant", out, id)
       /\ UNCHANGED <<nextId, registered, calls, runtime>>

\* addUser in a behaviour that may draw maxId identities.
AddUserWithin(userData, maxId) ==
    LET out == addUser(DB, userData, nextId)
    IN /\ out.result = "ok" => nextId <= maxId
       /\ Commit(out)
       /\ nextId' = IF out.result = "ok" THEN nextId + 1 ELSE nextId
       /\ last' = Returned("addUser", out, IF out.result = "ok" THEN nextId ELSE NoSuchId)
       /\ UNCHANGED <<registered, calls, runtime>>

AddUser(userData) == AddUserWithin(userData, MaxIds)

UpdateUser(id, userData) ==
    LET out == updateUser(DB, id, userData)
    IN /\ Commit(out)
       /\ last' = Returned("updateUser", out, id)
       /\ UNCHANGED <<nextId, registered, calls, runtime>>

DeleteUser(id, currentUserId) ==
    LET out == deleteUser(DB, id, currentUserId)
    IN /\ Commit(out)
       /\ last' = Returned("deleteUser", out, id)
       /\ UNCHANGED <<nextId, registered, calls, runtime>>

Next ==
    \/ \E rd \in NewRestaurantInputs, ad \in NewAdminInputs : CreateRestaurant(rd, ad)
    \/ \E id \in RestaurantIdInputs, rd \in PartialRestaurantInputs, ad \in AdminDataInputs :
          UpdateRestaurant(id, rd, ad)
    \/ \E id \in RestaurantIdInputs : DeleteRestaurant(id)
    \/ \E ud \in NewUserInputs : AddUser(ud)
    \/ \E id \in UserIdInputs, ud \in UserDataInputs : UpdateUser(id, ud)
    \/ \E id \in UserIdInputs, cur \in UserIdInputs : DeleteUser(id, cur)

Spec == Init /\ [][Next]_vars

\* Registration and updateRestaurant, with a password among the
\* administrator's new data.
NextAdmin ==
    \/ \E rd \in NewRestaurantInputs, ad \in NewAdminInputs : CreateRestaurant(rd, ad)
    \/ \E id \in RestaurantIdInputs, rd \in PartialRestaurantInputs,
          ad \in AdminDataInputs \cup AdminPasswordInputs :
          UpdateRestaurant(id, rd, ad)

SpecAdmin == Init /\ [][NextAdmin]_vars

----------------------------------------------------------------------------
\* Interleaved calls: a caller's call advances one awaited statement at a time.

\* adminData (of createRestaurant, of updateRestaurant) in the shape of userData.
AsUserData(data, keys) ==
    [keys |-> keys, email |-> data.email, password |-> data.password, role |-> "",
     restaurantId |-> NoSuchId]

NewUserData(userData) ==
    [keys |-> {"email", "password", "role", "restaurantId"}, email |-> userData.email,
     password |-> userData.password, role |-> userData.role,
     restaurantId |-> userData.restaurantId]

\* The call of caller c ends: `last` holds its operation and outcome.
Return(c, op, result) ==
    /\ calls' = [calls EXCEPT ![c] = IdleCall]
    /\ last' = [op |-> op, result |-> result, id |-> NoSuchId, rows |-> {}]
    /\ UNCHANGED runtime

\* The call of caller c goes on, with these locals.
Continue(c, call) ==
    /\ calls' = [calls EXCEPT ![c] = call]
    /\ UNCHANGED <<last, runtime>>

\* What the interleaved calls are given.
ConcEmails == {"ana@x.com", "bob@x.com"}

ConcNewAdminInputs == {[email |-> e, password |-> InitialPassword] : e \in ConcEmails}

ConcNewUserInputs ==
    {[email |-> e, password |-> InitialPassword, role |-> "seller", restaurantId |-> rid]
        : e \in ConcEmails, rid \in RestaurantIdInputs}

ConcUserDataInputs == {ud \in UserDataInputs : ud.keys = {"email"} /\ ud.email \in ConcEmails}

ConcAdminDataInputs == {ad \in AdminDataInputs : Has(ad, "id") /\ ad.email \in ConcEmails}

\* createRestaurant, line 58: the email pre-check.
CR_CheckEmail(c, restaurantData, adminData) ==
    /\ calls[c].pc = "idle"
    /\ IF EmailCount(users, adminData.email) > 0
       THEN Return(c, "createRestaurant", "email_in_use")
       ELSE Continue(c, [Call("cr_count") EXCEPT
                            !.restaurantData = restaurantData,
                            !.userData = AsUserData(adminData, {"email", "password"})])
    /\ UNCHANGED <<restaurants, users, catalog, nextId, registered>>

\* createRestaurant, line 64: the count of restaurants.
CR_Count(c) ==
    /\ calls[c].pc = "cr_count"
    /\ Continue(c, [calls[c] EXCEPT !.pc = "cr_tx",
                                    !.isFirstRestaurant = IsFirstRestaurant(DB)])
    /\ UNCHANGED <<restaurants, users, catalog, nextId, registered>>

\* createRestaurant, lines 68-85: the transaction.
CR_Tx(c) ==
    /\ calls[c].pc = "cr_tx"
    /\ nextId + 1 <= MaxConcIds
    /\ LET out == CreateRestaurantTx(DB, calls[c].restaurantData, calls[c].userData,
                                     calls[c].isFirstRestaurant, nextId, nextId + 1)
       IN /\ Commit(out)
          /\ nextId' = IF out.result = "ok" THEN nextId + 2 ELSE nextId
          /\ registered' = IF out.result = "ok"
                           THEN Append(registered, RoleOf(out.db.users, nextId + 1))
                           ELSE registered
          /\ Return(c, "createRestaurant", out.result)

\* addUser, line 146: the email pre-check.
AU_CheckEmail(c, userData) ==
    /\ calls[c].pc = "idle"
    /\ IF EmailCount(users, userData.email) > 0
       THEN Return(c, "addUser", "email_in_use")
       ELSE Continue(c, [Call("au_insert") EXCEPT !.userData = NewUserData(userData)])
    /\ UNCHANGED <<restaurants, users, catalog, nextId, registered>>

\* addUser, line 151: the insert.
AU_Insert(c) ==
    /\ calls[c].pc = "au_insert"
    /\ nextId <= MaxConcIds
    /\ LET userData == calls[c].userData
           out == InsertUser(DB, UserRow(nextId, userData, userData.role,
                                         userData.restaurantId))
       IN /\ Commit(out)
          /\ nextId' = IF out.result = "ok" THEN nextId + 1 ELSE nextId
          /\ Return(c, "addUser", out.result)
    /\ UNCHANGED registered

\* updateUser, lines 157-164: the check of the new email, when one is given.
UU_CheckEmail(c, id, userData) ==
    /\ calls[c].pc = "idle"
    /\ IF Has(userData, "email") /\ OtherUserWithEmail(users, userData.email, id)
       THEN Return(c, "updateUser", "email_in_use")
       ELSE Continue(c, [Call("uu_update") EXCEPT !.id = id, !.userData = userData])
    /\ UNCHANGED <<restaurants, users, catalog, nextId, registered>>

\* updateUser, line 165: the update.
UU_Update(c) ==
    /\ calls[c].pc = "uu_update"
    /\ LET out == UpdateUserRow(DB, calls[c].id, calls[c].userData)
       IN Commit(out) /\ Return(c, "updateUser", out.result)
    /\ UNCHANGED <<nextId, registered>>

\* updateRestaurant, lines 98-112: the transaction up to its email check. The
\* restaurant fields it has written stay invisible to other callers until the
\* commit; an email held by another user rolls it back.
UR_CheckEmail(c, id, restaurantData, adminData) ==
    /\ calls[c].pc = "idle"
    /\ IF Has(adminData, "id") /\ OtherUserWithEmail(users, adminData.email, adminData.id)
       THEN LET out == Transaction(DB, RestaurantWrite(DB, id, restaurantData),
                                   "email_in_use")
            IN Commit(out) /\ Return(c, "updateRestaurant", out.result)
       ELSE /\ Continue(c, [Call("ur_commit") EXCEPT
                               !.id = id, !.restaurantData = restaurantData,
                               !.userData = [AsUserData(adminData, adminData.keys) EXCEPT
                                                !.restaurantId = adminData.id]])
            /\ UNCHANGED <<restaurants, users, catalog>>
    /\ UNCHANGED <<nextId, registered>>

\* updateRestaurant, lines 114-126: the administrator's row, and the commit.
UR_Commit(c) ==
    /\ calls[c].pc = "ur_commit"
    /\ LET adminData == [keys |-> calls[c].userData.keys,
                         id |-> calls[c].userData.restaurantId,
                         email |-> calls[c].userData.email,
                         password |-> calls[c].userData.password]
           db1 == RestaurantWrite(DB, calls[c].id, calls[c].restaurantData)
           out == IF Has(adminData, "id") THEN AdminWrite(DB, db1, adminData)
                                          ELSE Transaction(DB, db1, "ok")
       IN Commit(out) /\ Return(c, "updateRestaurant", out.result)
    /\ UNCHANGED <<nextId, registered>>

NextConc ==
    \E c \in Callers :
        \/ \E rd \in NewRestaurantInputs, ad \in ConcNewAdminInputs :
              CR_CheckEmail(c, rd, ad)
        \/ CR_Count(c)
        \/ CR_Tx(c)
        \/ \E ud \in ConcNewUserInputs : AU_CheckEmail(c, ud)
        \/ AU_Insert(c)
        \/ \E id \in UserIdInputs, ud \in ConcUserDataInputs : UU_CheckEmail(c, id, ud)
        \/ UU_Update(c)
        \/ \E id \in Ids(restaurants), rd \in PartialRestaurantInputs,
              ad \in ConcAdminDataInputs : UR_CheckEmail(c, id, rd, ad)
        \/ UR_Commit(c)

SpecConc == Init /\ [][NextConc]_vars

----------------------------------------------------------------------------
\* Interleaved deleteUser calls: the rows it reads, the count it takes and the
\* row it deletes are separate statements on the pool, with no transaction
\* around them.

\* deleteUser, lines 173-180: the self check and the read of the target row,
\* which the call keeps (userToDelete).
DU_FindUser(c, id, currentUserId) ==
    /\ calls[c].pc = "idle"
    /\ IF id = currentUserId THEN Return(c, "deleteUser", "self_delete")
       ELSE IF ~ \E u \in users : u.id = id THEN Return(c, "deleteUser", "not_found")
       ELSE LET userToDelete == CHOOSE u \in users : u.id = id
            IN Continue(c, [Call("du_current") EXCEPT
                              !.id = id,
                              !.currentUserId = currentUserId,
                              !.userData.role = userToDelete.role,
                              !.userData.restaurantId = userToDelete.restaurantId])
    /\ UNCHANGED <<restaurants, users, catalog, nextId, registered>>

\* deleteUser, lines 182-207: the read of the actor's row and the checks that
\* need no further statement.
DU_FindCurrentUser(c) ==
    /\ calls[c].pc = "du_current"
    /\ LET role == RoleOf(users, calls[c].currentUserId)
           userToDelete == calls[c].userData
           call == [calls[c] EXCEPT !.currentUserRole = role]
       IN IF role = "superadmin"
          THEN IF userToDelete.role = "superadmin"
               THEN Continue(c, [call EXCEPT !.pc = "du_count_superadmins"])
               ELSE Continue(c, [call EXCEPT !.pc = "du_delete"])
          ELSE IF role = "admin"
          THEN IF userToDelete.role \in {"admin", "superadmin"}
               THEN Return(c, "deleteUser", "no_permission_admin")
               ELSE Continue(c, [call EXCEPT !.pc = "du_count_users"])
          ELSE Return(c, "deleteUser", "no_permission")
    /\ UNCHANGED <<restaurants, users, catalog, nextId, registered>>

\* deleteUser, lines 187-191: the count of superadmins.
DU_CountSuperadmins(c) ==
    /\ calls[c].pc = "du_count_superadmins"
    /\ IF SuperadminCount(users) <= 1
       THEN Return(c, "deleteUser", "last_superadmin")
       ELSE Continue(c, [calls[c] EXCEPT !.pc = "du_delete"])
    /\ UNCHANGED <<restaurants, users, catalog, nextId, registered>>

\* deleteUser, lines 199-203: the count of the users of the target's restaurant.
DU_CountUsers(c) ==
    /\ calls[c].pc = "du_count_users"
    /\ IF Cardinality({u \in users : u.restaurantId = calls[c].userData.restaurantId}) <= 1
       THEN Return(c, "deleteUser", "last_user")
       ELSE Continue(c, [calls[c] EXCEPT !.pc = "du_delete"])
    /\ UNCHANGED <<restaurants, users, catalog, nextId, registered>>

\* deleteUser, line 210: the delete.
DU_Delete(c) ==
    /\ calls[c].pc = "du_delete"
    /\ users' = {u \in users : u.id # calls[c].id}
    /\ Return(c, "deleteUser", "ok")
    /\ UNCHANGED <<restaurants, catalog, nextId, registered>>

\* The users the interleaved deleteUser calls find: a second superadmin, or
\* staff of a restaurant.
RaceUserInputs ==
    {ud \in NewUserInputs : ud.role \in {"superadmin", "seller"}
                            /\ ud.restaurantId \in Ids(restaurants)}

\* Registration and addUser as whole calls, deleteUser statement by statement.
NextRace ==
    \/ \E rd \in NewRestaurantInputs, ad \in ConcNewAdminInputs : CreateRestaurant(rd, ad)
    \/ \E ud \in RaceUserInputs : AddUserWithin(ud, MaxRaceIds)
    \/ \E c \in Callers :
          \/ \E id \in UserIdInputs, currentUserId \in UserIdInputs :
                DU_FindUser(c, id, currentUserId)
          \/ DU_FindCurrentUser(c)
          \/ DU_CountSuperadmins(c)
          \/ DU_CountUsers(c)
          \/ DU_Delete(c)

SpecRace == Init /\ [][NextRace]_vars

----------------------------------------------------------------------------
\* The catalog calls.

ProductInputs ==
    {[name |-> "Paella", price |-> 1000, restaurantId |-> rid] : rid \in RestaurantIdInputs}

CategoryInputs == {[name |-> "Arroces", restaurantId |-> rid] : rid \in RestaurantIdInputs}

CustomerInputs == {[name |-> "Luz", restaurantId |-> rid] : rid \in RestaurantIdInputs}

PurchaseInputs ==
    {[productName |-> "Arroz", unitPrice |-> 199, restaurantId |-> rid]
        : rid \in RestaurantIdInputs}

\* The order of the sale: its lines, the first for a product of the menu.
ItemsInputs ==
    {<<[id |-> pid, name |-> "Paella", price |-> 1000, quantity |-> 2],
       [id |-> NoSuchId, name |-> "Agua", price |-> 550, quantity |-> 1]>>
        : pid \in Ids(products) \cup {NoSuchId}}

\* Sales as callers make them: the total is the caller's own sum (right or
\* wrong), the date is new Date(), on a whole second or not.
SaleInputs ==
    {[items |-> items, totalPrice |-> total, status |-> "pending", saleDate |-> date,
      restaurantId |-> rid]
        : items \in ItemsInputs, total \in {2550, 2500}, date \in {2000, 2400},
          rid \in RestaurantIdInputs}

\* The sales of the behaviours that are not about a sale's fields.
StoreSaleInputs ==
    {sale \in SaleInputs : /\ sale.totalPrice = 2550
                           /\ sale.saleDate = 2000
                           /\ sale.items[1].id = NoSuchId}

\* A catalog insert in a behaviour that may draw maxId identities: the
\* handler's outcome, one identity drawn when it succeeds.
InsertWithin(op, out, maxId) ==
    /\ out.result = "ok" => nextId <= maxId
    /\ Commit(out)
    /\ nextId' = IF out.result = "ok" THEN nextId + 1 ELSE nextId
    /\ last' = Returned(op, out, IF out.result = "ok" THEN nextId ELSE NoSuchId)
    /\ UNCHANGED <<registered, calls, runtime>>

Insert(op, out) == InsertWithin(op, out, MaxStoreIds)

AddProduct(product) == Insert("addProduct", addProduct(DB, product, nextId))

AddCategory(category) == Insert("addCategory", addCategory(DB, category, nextId))

AddCustomer(customer) == Insert("addCustomer", addCustomer(DB, customer, nextId))

AddPurchase(purchase) == Insert("addPurchase", addPurchase(DB, purchase, nextId))

AddSale(sale) == Insert("addSale", addSale(DB, sale, nextId))

\* The staff SpecStore adds.
StoreUserInputs ==
    {ud \in NewUserInputs : ud.role = "waiter" /\ ud.email \notin ConcEmails}

NextStore ==
    \/ \E rd \in NewRestaurantInputs, ad \in NewAdminInputs : CreateRestaurant(rd, ad)
    \/ \E id \in RestaurantIdInputs : DeleteRestaurant(id)
    \/ \E ud \in StoreUserInputs : AddUserWithin(ud, MaxStoreIds)
    \/ \E product \in ProductInputs : AddProduct(product)
    \/ \E category \in CategoryInputs : AddCategory(category)
    \/ \E customer \in CustomerInputs : AddCustomer(customer)
    \/ \E purchase \in PurchaseInputs : AddPurchase(purchase)
    \/ \E sale \in StoreSaleInputs : AddSale(sale)

SpecStore == Init /\ [][NextStore]_vars

----------------------------------------------------------------------------
\* The catalog reads and updates.

\* What a list action may be asked for: a restaurant, or 'all'.
ScopeInputs == RestaurantIdInputs \cup {All}

\* A read returns its rows and writes nothing.
Read(op, id, rows) ==
    /\ last' = [op |-> op, result |-> "ok", id |-> id, rows |-> rows]
    /\ UNCHANGED <<restaurants, users, catalog, nextId, registered, calls, runtime>>

GetProductsForRestaurant(restaurantId) ==
    Read("getProductsForRestaurant", restaurantId,
         getProductsForRestaurant(DB, restaurantId))

GetCategoriesForRestaurant(restaurantId) ==
    Read("getCategoriesForRestaurant", restaurantId,
         getCategoriesForRestaurant(DB, restaurantId))

GetCustomersForRestaurant(restaurantId) ==
    Read("getCustomersForRestaurant", restaurantId,
         getCustomersForRestaurant(DB, restaurantId))

GetPurchasesForRestaurant(restaurantId) ==
    Read("getPurchasesForRestaurant", restaurantId,
         getPurchasesForRestaurant(DB, restaurantId))

GetSalesForRestaurant(restaurantId) ==
    Read("getSalesForRestaurant", restaurantId, getSalesForRestaurant(DB, restaurantId))

GetSaleById(id) == Read("getSaleById", id, getSaleById(DB, id))

\* The objects the update actions are given. The parameter types leave out id
\* and restaurantId (Partial<Omit<...>>), which hides the property from the
\* type and does not remove it from the object: .set() is handed the object
\* as it came, so an object that carries restaurantId is among the inputs.
ProductDataInputs ==
    {[keys |-> {"name"}, name |-> "Fideua", price |-> 0, restaurantId |-> NoSuchId],
     [keys |-> {"price"}, name |-> "", price |-> 1400, restaurantId |-> NoSuchId]}
    \cup {[keys |-> {"restaurantId"}, name |-> "", price |-> 0, restaurantId |-> rid]
            : rid \in Ids(restaurants)}

NamedDataInputs ==
    {[keys |-> {"name"}, name |-> "Otro", restaurantId |-> NoSuchId]}
    \cup {[keys |-> {"restaurantId"}, name |-> "", restaurantId |-> rid]
            : rid \in Ids(restaurants)}

PurchaseDataInputs ==
    {[keys |-> {"unitPrice"}, productName |-> "", unitPrice |-> 250,
      restaurantId |-> NoSuchId]}
    \cup {[keys |-> {"restaurantId"}, productName |-> "", unitPrice |-> 0,
           restaurantId |-> rid] : rid \in Ids(restaurants)}

SaleDataInputs ==
    {[keys |-> {"totalPrice"}, items |-> << >>, totalPrice |-> 3000, status |-> "",
      saleDate |-> 0, restaurantId |-> NoSuchId]}
    \cup {[keys |-> {"restaurantId"}, items |-> << >>, totalPrice |-> 0, status |-> "",
           saleDate |-> 0, restaurantId |-> rid] : rid \in Ids(restaurants)}

StatusInputs == {"paid", "pending"}

\* An update writes its row and returns it as read back.
Update(op, out, id, rows) ==
    /\ Commit(out)
    /\ last' = [op |-> op, result |-> out.result, id |-> id,
                rows |-> IF out.result = "ok" THEN rows ELSE {}]
    /\ UNCHANGED <<nextId, registered, calls, runtime>>

UpdateProduct(id, product) ==
    LET out == updateProduct(DB, id, product)
    IN Update("updateProduct", out, id, {p \in out.db.products : p.id = id})

DeleteProduct(id) ==
    Update("deleteProduct", deleteProduct(DB, id), id, {})

UpdateCategory(id, category) ==
    LET out == updateCategory(DB, id, category)
    IN Update("updateCategory", out, id, {r \in out.db.categories : r.id = id})

UpdateCustomer(id, customer) ==
    LET out == updateCustomer(DB, id, customer)
    IN Update("updateCustomer", out, id, {r \in out.db.customers : r.id = id})

UpdatePurchase(id, purchase) ==
    LET out == updatePurchase(DB, id, purchase)
    IN Update("updatePurchase", out, id,
              {[p EXCEPT !.unitPrice = Number(@)] : p \in {r \in out.db.purchases : r.id = id}})

UpdateSale(id, sale) ==
    LET out == updateSale(DB, id, sale)
    IN Update("updateSale", out, id, getSaleById(out.db, id))

UpdateSaleStatus(id, status) ==
    LET out == updateSaleStatus(DB, id, status)
    IN Update("updateSaleStatus", out, id, getSaleById(out.db, id))

\* The ids the catalog actions are asked about: a row's, or one that matches none.
RowIdInputs(rows) == Ids(rows) \cup {NoSuchId}

\* The lists deleteSales is given: any ids of sales, none, or one of no sale.
SaleIdListInputs == SUBSET RowIdInputs(sales)

DeleteSales(ids) ==
    Update("deleteSales", deleteSales(DB, ids), NoSuchId, {})

\* Registration, the catalog inserts, the list actions and the bulk delete of
\* sales.
NextLists ==
    \/ \E rd \in NewRestaurantInputs, ad \in ConcNewAdminInputs : CreateRestaurant(rd, ad)
    \/ \E product \in ProductInputs :
          InsertWithin("addProduct", addProduct(DB, product, nextId), MaxListIds)
    \/ \E category \in CategoryInputs :
          InsertWithin("addCategory", addCategory(DB, category, nextId), MaxListIds)
    \/ \E customer \in CustomerInputs :
          InsertWithin("addCustomer", addCustomer(DB, customer, nextId), MaxListIds)
    \/ \E purchase \in PurchaseInputs :
          InsertWithin("addPurchase", addPurchase(DB, purchase, nextId), MaxListIds)
    \/ \E sale \in StoreSaleInputs :
          InsertWithin("addSale", addSale(DB, sale, nextId), MaxListIds)
    \/ \E restaurantId \in ScopeInputs : GetProductsForRestaurant(restaurantId)
    \/ \E restaurantId \in ScopeInputs : GetCategoriesForRestaurant(restaurantId)
    \/ \E restaurantId \in ScopeInputs : GetCustomersForRestaurant(restaurantId)
    \/ \E restaurantId \in ScopeInputs : GetPurchasesForRestaurant(restaurantId)
    \/ \E restaurantId \in ScopeInputs : GetSalesForRestaurant(restaurantId)
    \/ \E ids \in SaleIdListInputs : DeleteSales(ids)

SpecLists == Init /\ [][NextLists]_vars

\* Registration, products and sales: their inserts, the product edits, the
\* read of a sale.
NextCatalog ==
    \/ \E rd \in NewRestaurantInputs, ad \in ConcNewAdminInputs : CreateRestaurant(rd, ad)
    \/ \E product \in ProductInputs :
          InsertWithin("addProduct", addProduct(DB, product, nextId), MaxCatalogIds)
    \/ \E sale \in SaleInputs :
          InsertWithin("addSale", addSale(DB, sale, nextId), MaxCatalogIds)
    \/ \E id \in RowIdInputs(products), product \in ProductDataInputs :
          UpdateProduct(id, product)
    \/ \E id \in RowIdInputs(products) : DeleteProduct(id)
    \/ \E id \in RowIdInputs(sales) : GetSaleById(id)

SpecCatalog == Init /\ [][NextCatalog]_vars

\* Registration, the catalog inserts and the catalog updates.
NextUpdates ==
    \/ \E rd \in NewRestaurantInputs, ad \in ConcNewAdminInputs : CreateRestaurant(rd, ad)
    \/ \E product \in ProductInputs :
          InsertWithin("addProduct", addProduct(DB, product, nextId), MaxCatalogIds)
    \/ \E category \in CategoryInputs :
          InsertWithin("addCategory", addCategory(DB, category, nextId), MaxCatalogIds)
    \/ \E customer \in CustomerInputs :
          InsertWithin("addCustomer", addCustomer(DB, customer, nextId), MaxCatalogIds)
    \/ \E purchase \in PurchaseInputs :
          InsertWithin("addPurchase", addPurchase(DB, purchase, nextId), MaxCatalogIds)
    \/ \E sale \in StoreSaleInputs :
          InsertWithin("addSale", addSale(DB, sale, nextId), MaxCatalogIds)
    \/ \E id \in RowIdInputs(products), product \in ProductDataInputs :
          UpdateProduct(id, product)
    \/ \E id \in RowIdInputs(categories), category \in NamedDataInputs :
          UpdateCategory(id, category)
    \/ \E id \in RowIdInputs(customers), customer \in NamedDataInputs :
          UpdateCustomer(id, customer)
    \/ \E id \in RowIdInputs(purchases), purchase \in PurchaseDataInputs :
          UpdatePurchase(id, purchase)
    \/ \E id \in RowIdInputs(sales), sale \in SaleDataInputs : UpdateSale(id, sale)
    \/ \E id \in RowIdInputs(sales), status \in StatusInputs : UpdateSaleStatus(id, status)

SpecUpdates == Init /\ [][NextUpdates]_vars

----------------------------------------------------------------------------
\* Registration and the user actions, with staff beyond the administrators.

RoleDataInputs == {ud \in UserDataInputs : ud.keys = {"role"}}

NextUsers ==
    \/ \E rd \in NewRestaurantInputs, ad \in NewAdminInputs : CreateRestaurant(rd, ad)
    \/ \E ud \in NewUserInputs : AddUserWithin(ud, MaxUserIds)
    \/ \E id \in UserIdInputs, ud \in RoleDataInputs : UpdateUser(id, ud)
    \/ \E id \in UserIdInputs, cur \in UserIdInputs : DeleteUser(id, cur)

SpecUsers == Init /\ [][NextUsers]_vars

----------------------------------------------------------------------------
\* Properties of the tenant directory (calls in sequence, Spec).

Failed == last'.result # "ok"

\* C1: once a superadmin exists, no call (deleteUser, deleteRestaurant's cascade,
\* updateUser changing a role, ...) brings the number of superadmins below 1.
C1_SuperadminCountNeverDropsBelowOne ==
    [][SuperadminCount(users) >= 1 => SuperadminCount(users') >= 1]_vars

\* C2: a deleteUser call whose target is the only superadmin of the system ends
\* in an error and leaves the users as they were, whoever the actor is.
C2_SoleSuperadminNotDeletedByDeleteUser ==
    [][(last'.op = "deleteUser" /\ SuperadminCount(users) = 1) =>
          \A id \in UserIdInputs, currentUserId \in UserIdInputs :
             (/\ last'.id = id
              /\ \E u \in users : u.id = id /\ u.role = "superadmin"
              /\ DeleteUser(id, currentUserId))
             => (Failed /\ users' = users)]_vars

\* An admin's deleteUser on the only superadmin has just been refused.
C2_Witness ==
    /\ last.op = "deleteUser"
    /\ last.result = "no_permission_admin"
    /\ RoleOf(users, last.id) = "superadmin"
    /\ SuperadminCount(users) = 1

\* C3: the first successful createRestaurant creates its administrator with role
\* superadmin and every later successful one with role admin, also when all the
\* earlier restaurants have been deleted in between.
C3_OnlyFirstRegistrationEverIsSuperadmin ==
    \A i \in DOMAIN registered :
        registered[i] = IF i = 1 THEN "superadmin" ELSE "admin"

\* C6: addUser and createRestaurant given an email some user already holds (in
\* any restaurant) end in the email-in-use error, and users and restaurants stay
\* as they were.
C6_DuplicateEmailCreateRefused ==
    [][/\ last'.op = "addUser" =>
            \A userData \in NewUserInputs :
               ((\E u \in users : u.email = userData.email) /\ AddUser(userData))
               => (last'.result = "email_in_use" /\ users' = users
                   /\ restaurants' = restaurants)
       /\ last'.op = "createRestaurant" =>
            \A restaurantData \in NewRestaurantInputs, adminData \in NewAdminInputs :
               ((\E u \in users : u.email = adminData.email)
                /\ CreateRestaurant(restaurantData, adminData))
               => (last'.result = "email_in_use" /\ users' = users
                   /\ restaurants' = restaurants)]_vars

\* An addUser has just been refused for its email, with users in two restaurants.
C6_Witness ==
    /\ last.op = "addUser"
    /\ last.result = "email_in_use"
    /\ \E u \in users, v \in users : u.restaurantId # v.restaurantId

\* C8: updateRestaurant given an admin email that another user holds ends in an
\* error and changes neither a restaurant row nor a user row, although the
\* restaurant fields are written before the email is checked.
C8_UpdateRestaurantEmailConflictWritesNothing ==
    [][last'.op = "updateRestaurant" =>
          \A id \in RestaurantIdInputs, restaurantData \in PartialRestaurantInputs,
             adminData \in AdminDataInputs :
             (/\ last'.id = id
              /\ Has(adminData, "id")
              /\ \E u \in users : u.email = adminData.email /\ u.id # adminData.id
              /\ UpdateRestaurant(id, restaurantData, adminData))
             => (Failed /\ restaurants' = restaurants /\ users' = users)]_vars

\* An updateRestaurant on an existing restaurant has just failed on the email,
\* in a state where a renamed restaurant shows that renames do get through.
C8_Witness ==
    /\ last.op = "updateRestaurant"
    /\ last.result = "email_in_use"
    /\ \E r \in restaurants : r.id = last.id /\ r.name = "Mar"
    /\ \E r \in restaurants : r.name = "Sol"

\* The user with this id holds this email.
HoldsEmail(us, id, email) == \E u \in us : u.id = id /\ u.email = email

\* C9: updateUser(id, {email}) and the admin update of updateRestaurant fail
\* exactly when a user with another id holds the new email; otherwise they
\* succeed and the updated user holds it (so does a user given its own email).
C9_EmailUpdateFailsIffHeldByAnother ==
    [][/\ last'.op = "updateUser" =>
          \A id \in UserIdInputs, userData \in UserDataInputs :
            (last'.id = id /\ userData.keys = {"email"} /\ UpdateUser(id, userData))
            => /\ Failed <=> \E u \in users : u.email = userData.email /\ u.id # id
               /\ (~Failed /\ id \in Ids(users))
                     => HoldsEmail(users', id, userData.email)
               /\ HoldsEmail(users, id, userData.email)
                     => (~Failed /\ users' = users)
       /\ last'.op = "updateRestaurant" =>
          \A id \in RestaurantIdInputs, restaurantData \in PartialRestaurantInputs,
            adminData \in AdminDataInputs :
            (/\ last'.id = id
             /\ Has(adminData, "id")
             /\ UpdateRestaurant(id, restaurantData, adminData))
            => /\ Failed <=> \E u \in users : u.email = adminData.email
                                                /\ u.id # adminData.id
               /\ (~Failed /\ adminData.id \in Ids(users))
                     => HoldsEmail(users', adminData.id, adminData.email)
               /\ HoldsEmail(users, adminData.id, adminData.email)
                     => (~Failed /\ users' = users)]_vars

\* An updateUser has just succeeded while every email is taken: the email it
\* set can only be the one the user already held.
C9_Witness ==
    /\ last.op = "updateUser"
    /\ last.result = "ok"
    /\ last.id \in Ids(users)
    /\ {u.email : u \in users} = Emails

----------------------------------------------------------------------------
\* Properties of interleaved calls (SpecConc) and of the cascade (SpecStore).

\* C4: of the createRestaurant calls racing on an empty system at most one
\* creates a superadmin. (No call of SpecConc deletes a restaurant, so two
\* registrations that both created a superadmin both counted zero restaurants.)
C4_AtMostOneRegistrationBootstrapsSuperadmin ==
    Cardinality({i \in DOMAIN registered : registered[i] = "superadmin"}) <= 1

\* C5: no two distinct users hold the same email, in one restaurant or in two,
\* however createRestaurant, addUser, updateUser and updateRestaurant interleave.
C5_NoTwoUsersShareAnEmail ==
    \A u \in users, v \in users : u # v => u.email # v.email

\* A call that passed its email check has just lost the race for that email to a
\* user of another restaurant: the unique index refused its write.
C5_Witness ==
    /\ last.result = "duplicate_entry"
    /\ last.op \in {"addUser", "updateUser", "updateRestaurant"}
    /\ \E u \in users, v \in users : u.restaurantId # v.restaurantId

\* Every restaurant has an administrator (a user created with it).
EveryRestaurantHasItsAdmin ==
    \A r \in restaurants :
        \E u \in users : u.restaurantId = r.id /\ u.role \in {"superadmin", "admin"}

\* C7: the transaction of createRestaurant inserts the restaurant together with
\* its administrator, or fails and inserts neither, also when the insert of the
\* administrator is refused because a concurrent call took the email after the
\* pre-check; so no restaurant is ever without the administrator created with it.
C7_CreateRestaurantIsAtomic ==
    /\ []EveryRestaurantHasItsAdmin
    /\ [][\A c \in Callers :
            (calls[c].pc = "cr_tx" /\ calls'[c].pc = "idle") =>
               \/ /\ last'.result = "ok"
                  /\ \E r \in restaurants' \ restaurants, u \in users' \ users :
                        /\ restaurants' = restaurants \cup {r}
                        /\ users' = users \cup {u}
                        /\ u.restaurantId = r.id
               \/ /\ last'.result # "ok"
                  /\ restaurants' = restaurants
                  /\ users' = users]_vars

\* A createRestaurant has just failed inside its transaction, on the insert of
\* the administrator.
C7_Witness ==
    /\ last.op = "createRestaurant"
    /\ last.result = "duplicate_entry"
    /\ restaurants # {}

RowsOf(db) ==
    db.users \cup db.products \cup db.categories \cup db.customers \cup db.purchases
    \cup db.sales

\* C10: after deleteRestaurant(R) no user, product, category, customer, purchase
\* or sale of R remains, restaurant R is gone, and the rows of every other
\* restaurant are the same as before.
C10_DeleteRestaurantCascadeIsCompleteAndExact ==
    [][last'.op = "deleteRestaurant" =>
          \A id \in RestaurantIdInputs :
             (last'.id = id /\ DeleteRestaurant(id)) =>
                /\ \A row \in RowsOf(DB)' : row.restaurantId # id
                /\ id \notin Ids(restaurants')
                /\ \A r \in restaurants : r.id # id => r \in restaurants'
                /\ \A row \in RowsOf(DB) : row.restaurantId # id =>
                      /\ row \in users <=> row \in users'
                      /\ row \in products <=> row \in products'
                      /\ row \in categories <=> row \in categories'
                      /\ row \in customers <=> row \in customers'
                      /\ row \in purchases <=> row \in purchases'
                      /\ row \in sales <=> row \in sales'
                /\ RowsOf(DB)' \subseteq RowsOf(DB)
                /\ restaurants' \subseteq restaurants]_vars

\* A deleteRestaurant has just removed one of two restaurants with its
\* administrator and its catalog row (of the six identities drawn three are
\* left), and the other restaurant still has its administrator and a catalog row.
C10_Witness ==
    /\ last.op = "deleteRestaurant"
    /\ last.id # NoSuchId
    /\ Cardinality(restaurants) = 1
    /\ Cardinality(users) = 1
    /\ Cardinality(RowsOf(DB)) = 2
    /\ nextId = 7
    /\ \A row \in RowsOf(DB) : row.restaurantId \in Ids(restaurants)

----------------------------------------------------------------------------
\* Properties of deleteUser (SpecUsers).

\* C11: a deleteUser whose actor is stored with role admin succeeds only on a
\* seller or waiter of the actor's own restaurant; on a seller or waiter of
\* another restaurant it is denied and the users stay as they were.
C11_AdminDeletesOnlyStaffOfOwnRestaurant ==
    [][last'.op = "deleteUser" =>
          \A id \in UserIdInputs, currentUserId \in UserIdInputs :
             (last'.id = id /\ DeleteUser(id, currentUserId)) =>
                \A actor \in users, target \in users :
                   (actor.id = currentUserId /\ actor.role = "admin" /\ target.id = id)
                   => /\ ~Failed => /\ target.role \in {"seller", "waiter"}
                                    /\ target.restaurantId = actor.restaurantId
                      /\ target.restaurantId # actor.restaurantId
                            => (Failed /\ users' = users)]_vars

\* C12: a deleteUser whose target is an admin and the only user of its
\* restaurant is denied whoever the actor is (the superadmin of another
\* restaurant included), and the target is still stored afterwards.
C12_SoleAdminOfRestaurantNotDeleted ==
    [][last'.op = "deleteUser" =>
          \A id \in UserIdInputs, currentUserId \in UserIdInputs :
             (/\ last'.id = id
              /\ \E target \in users :
                    /\ target.id = id
                    /\ target.role = "admin"
                    /\ \A u \in users : u.restaurantId = target.restaurantId => u = target
              /\ DeleteUser(id, currentUserId))
             => (Failed /\ id \in Ids(users'))]_vars

\* C13: deleteUser(id, id) ends in an error and leaves the users as they were,
\* whatever the role of the user with that id, and when there is no such user.
C13_SelfDeleteAlwaysDenied ==
    [][last'.op = "deleteUser" =>
          \A id \in UserIdInputs :
             (last'.id = id /\ DeleteUser(id, id)) => (Failed /\ users' = users)]_vars

\* A superadmin's deleteUser on itself has just been refused while a second
\* superadmin is stored (the last-superadmin rule would have let it through).
C13_Witness ==
    /\ last.op = "deleteUser"
    /\ last.result = "self_delete"
    /\ RoleOf(users, last.id) = "superadmin"
    /\ SuperadminCount(users) >= 2

\* C14: a deleteUser whose actor is stored as seller or waiter, or is not
\* stored at all, is denied for every target and leaves the users as they were.
C14_StaffAndUnknownActorsDenied ==
    [][last'.op = "deleteUser" =>
          \A id \in UserIdInputs, currentUserId \in UserIdInputs :
             (/\ last'.id = id
              /\ \A actor \in users :
                    actor.id = currentUserId => actor.role \in {"seller", "waiter"}
              /\ DeleteUser(id, currentUserId))
             => (Failed /\ users' = users)]_vars

\* A deleteUser on a stored user has just been refused because of who asked,
\* with a seller or waiter stored besides the target.
C14_Witness ==
    /\ last.op = "deleteUser"
    /\ last.result = "no_permission"
    /\ last.id \in Ids(users)
    /\ \E u \in users : u.id # last.id /\ u.role \in {"seller", "waiter"}

----------------------------------------------------------------------------
\* Properties of the list actions (SpecLists).

ListOps ==
    {"getProductsForRestaurant", "getCategoriesForRestaurant",
     "getCustomersForRestaurant", "getPurchasesForRestaurant", "getSalesForRestaurant"}

\* The table a list action reads.
TableOf(op) ==
    CASE op = "getProductsForRestaurant" -> products
      [] op = "getCategoriesForRestaurant" -> categories
      [] op = "getCustomersForRestaurant" -> customers
      [] op = "getPurchasesForRestaurant" -> purchases
      [] op = "getSalesForRestaurant" -> sales

\* C15: a list action asked for 'all' or for a restaurant other than the
\* actor's own, by an actor that is not a superadmin, returns no row of a
\* restaurant other than the actor's. (The list actions take no actor: every
\* stored user can be the one who asks.)
C15_ListsReturnNoRowOfAnotherRestaurant ==
    [][last'.op \in ListOps =>
          \A actor \in users :
             (actor.role # "superadmin" /\ last'.id # actor.restaurantId)
             => \A row \in last'.rows : row.restaurantId = actor.restaurantId]_vars

\* C16: a list action asked for a restaurant returns the rows of its table
\* whose restaurantId is that restaurant's, all of them and no other, and asked
\* for 'all' it returns every row of the table.
C16_ListReturnsExactlyTheScopedRows ==
    [][last'.op \in ListOps =>
          LET scope == last'.id
              expected == {r \in TableOf(last'.op) :
                              scope = All \/ r.restaurantId = scope}
          IN /\ Ids(last'.rows) = Ids(expected)
             /\ Cardinality(last'.rows) = Cardinality(expected)
             /\ \A row \in last'.rows :
                   \E r \in expected : r.id = row.id /\ r.restaurantId = row.restaurantId
             /\ scope = All => Cardinality(last'.rows) = Cardinality(TableOf(last'.op))
             /\ UNCHANGED <<restaurants, users, catalog>>]_vars

\* A list action asked for one restaurant has just returned a row while its
\* table holds a row of another restaurant too.
C16_Witness ==
    /\ last.op \in ListOps
    /\ last.id \in Ids(restaurants)
    /\ last.rows # {}
    /\ \E r \in TableOf(last.op) : r.restaurantId # last.id

----------------------------------------------------------------------------
\* Properties of sales and of the catalog updates (SpecCatalog, SpecUpdates).

\* The sum over the lines of a sale of price times quantity.
RECURSIVE ItemsTotal(_)
ItemsTotal(items) ==
    IF items = << >> THEN 0
    ELSE Head(items).price * Head(items).quantity + ItemsTotal(Tail(items))

\* C17: an addSale whose totalPrice differs from the sum over its items of
\* price times quantity persists no sale, so that every sale addSale persists
\* has its totalPrice equal to that sum.
C17_AddSalePersistsOnlyConsistentTotals ==
    [][last'.op = "addSale" =>
          \A sale \in SaleInputs :
             (/\ sale.totalPrice # ItemsTotal(sale.items)
              /\ InsertWithin("addSale", addSale(DB, sale, nextId), MaxCatalogIds))
             => (Failed /\ sales' = sales)]_vars

\* C18: after addSale(s), getSaleById on the id returned, and the entry of that
\* id in getSalesForRestaurant, have the items of s in content and order and
\* the other fields as supplied.
C18_SaleReadsBackAsSupplied ==
    [][last'.op = "addSale" =>
          \A sale \in SaleInputs :
             (InsertWithin("addSale", addSale(DB, sale, nextId), MaxCatalogIds) /\ ~Failed)
             => LET supplied == [id |-> last'.id, items |-> sale.items,
                                 totalPrice |-> sale.totalPrice, status |-> sale.status,
                                 saleDate |-> sale.saleDate,
                                 restaurantId |-> sale.restaurantId]
                IN /\ getSaleById(DB', last'.id) = {supplied}
                   /\ supplied \in getSalesForRestaurant(DB', sale.restaurantId)]_vars

\* C19: updateProduct and deleteProduct leave the stored sales as they are:
\* the lines of a sale keep the product id, name, price and quantity they were
\* created with, and the sale keeps its totalPrice.
C19_ProductEditsLeaveSalesUnchanged ==
    [][last'.op \in {"updateProduct", "deleteProduct"} => sales' = sales]_vars

\* An updateProduct has just repriced a product that a stored sale has a line
\* for, and the line still carries the price the sale was made at.
C19_Witness ==
    /\ last.op = "updateProduct"
    /\ last.result = "ok"
    /\ \E p \in products, s \in sales :
          /\ p.id = last.id
          /\ Number(p.price) = 1400
          /\ s.items[1].id = p.id
          /\ s.items[1].price = 1000

UpdateOps ==
    {"updateProduct", "updateCategory", "updateCustomer", "updatePurchase",
     "updateSale", "updateSaleStatus"}

CatalogRows(db) ==
    db.products \cup db.categories \cup db.customers \cup db.purchases \cup db.sales

\* C20: no update action of the catalog changes the restaurantId of a row.
C20_UpdatesKeepRestaurantId ==
    [][last'.op \in UpdateOps =>
          \A before \in CatalogRows(DB), after \in CatalogRows(DB)' :
             before.id = after.id => before.restaurantId = after.restaurantId]_vars

\* C21: an update action (updateProduct, updateCategory, updateCustomer,
\* updatePurchase, updateSale, updateSaleStatus, updateUser) given an id that
\* matches no row ends in an error and leaves the store as it was; given the
\* id of a row it returns that row as stored after the update.
C21_UpdateOfMissingIdFails ==
    [][last'.op \in UpdateOps \cup {"updateUser"} =>
          IF last'.id \in Ids(CatalogRows(DB) \cup users)
          THEN ~Failed => Ids(last'.rows) = {last'.id}
          ELSE Failed /\ UNCHANGED <<restaurants, users, catalog>>]_vars

\* C22: updateSaleStatus on a stored sale succeeds for either status, whatever
\* the status the sale had, and sets the status of that sale and nothing else:
\* the sale keeps its other fields, the other sales and the other tables stay
\* as they were.
C22_UpdateSaleStatusSetsOnlyTheStatus ==
    [][last'.op = "updateSaleStatus" =>
          \A id \in Ids(sales), status \in StatusInputs :
             (last'.id = id /\ UpdateSaleStatus(id, status))
             => /\ ~Failed
                /\ Cardinality(sales') = Cardinality(sales)
                /\ \A s \in sales :
                      IF s.id = id
                      THEN \E t \in sales' :
                              /\ t.id = id
                              /\ t.status = status
                              /\ t.items = s.items
                              /\ t.totalPrice = s.totalPrice
                              /\ t.saleDate = s.saleDate
                              /\ t.restaurantId = s.restaurantId
                      ELSE s \in sales'
                /\ UNCHANGED <<restaurants, users, products, categories, customers,
                               purchases>>]_vars

\* An updateSaleStatus has just marked a sale paid while another sale is
\* stored pending.
C22_Witness ==
    /\ last.op = "updateSaleStatus"
    /\ last.result = "ok"
    /\ \E s \in sales, t \in sales :
          s.id = last.id /\ s.status = "paid" /\ t.id # s.id /\ t.status = "pending"

\* The ids of the rows stored, of every table.
StoredIds == Ids(restaurants) \cup Ids(users) \cup Ids(CatalogRows(DB))

\* C23: deleteSales(ids) succeeds and removes exactly the sales whose id is in
\* ids: the other sales and every other table stay as they were, and with an
\* empty list the store is unchanged.
C23_DeleteSalesRemovesExactlyTheListed ==
    [][last'.op = "deleteSales" =>
          \A ids \in SaleIdListInputs :
             DeleteSales(ids)
             => /\ ~Failed
                /\ \A s \in sales : s \in sales' <=> s.id \notin ids
                /\ sales' \subseteq sales
                /\ ids = {} => sales' = sales
                /\ UNCHANGED <<restaurants, users, products, categories, customers,
                               purchases>>]_vars

\* A deleteSales has just completed on a store from which a sale has been
\* deleted (an id that was issued is stored no more) and which still holds a
\* sale.
C23_Witness ==
    /\ last.op = "deleteSales"
    /\ sales # {}
    /\ Cardinality(StoredIds) < nextId - 1

----------------------------------------------------------------------------
\* Properties of updateRestaurant's administrator data (SpecAdmin).

\* C24: an updateRestaurant that succeeds with administrator data stores the
\* supplied email on the administrator's row, and the supplied password only
\* when one is supplied and has at least 6 characters; otherwise the row keeps
\* the password it had.
C24_AdminPasswordChangesOnlyWhenLongEnough ==
    [][last'.op = "updateRestaurant" =>
          \A id \in RestaurantIdInputs, rd \in PartialRestaurantInputs,
             ad \in AdminDataInputs \cup AdminPasswordInputs :
             (last'.id = id /\ Has(ad, "id") /\ UpdateRestaurant(id, rd, ad) /\ ~Failed)
             => /\ Ids(users') = Ids(users)
                /\ \A u \in users, v \in users' :
                      (u.id = ad.id /\ v.id = ad.id)
                      => /\ v.email = ad.email
                         /\ v.password =
                               IF Has(ad, "password") /\ Len(ad.password) >= 6
                               THEN ad.password ELSE u.password]_vars

\* An updateRestaurant has just succeeded, one administrator holds a password
\* of 6 characters, which only updateRestaurant supplies, and another still
\* holds the password of the registration.
C24_Witness ==
    /\ last.op = "updateRestaurant"
    /\ last.result = "ok"
    /\ \E u \in users : u.password = "123456"
    /\ \E u \in users : u.password = InitialPassword

----------------------------------------------------------------------------
\* Properties of interleaved deleteUser calls (SpecRace).

\* C25: once a superadmin is stored, every step of the interleaved deleteUser
\* calls leaves a superadmin stored: two superadmins that delete each other
\* at the same time do not both succeed.
C25_ConcurrentDeletesKeepASuperadmin ==
    [][SuperadminCount(users) >= 1 => SuperadminCount(users') >= 1]_vars

\* C26: a deleteUser whose actor is an admin removes the last user of no
\* restaurant, however its statements interleave with those of another
\* deleteUser.
C26_AdminDeleteLeavesNoRestaurantEmpty ==
    [][\A c \in Callers :
          (/\ calls[c].pc = "du_delete"
           /\ calls'[c].pc = "idle"
           /\ calls[c].currentUserRole = "admin")
          => \A r \in restaurants :
                (\E u \in users : u.restaurantId = r.id)
                => \E u \in users' : u.restaurantId = r.id]_vars

----------------------------------------------------------------------------
\* Properties of the references to restaurants (SpecStore).

CreateOps ==
    {"addUser", "addProduct", "addCategory", "addCustomer", "addPurchase", "addSale"}

\* C27: in every state each user, product, category, customer, purchase and
\* sale has the restaurantId of a stored restaurant, and a create call that
\* names a restaurant that is not stored fails and persists nothing.
C27_RowsReferToStoredRestaurants ==
    /\ [](\A row \in users \cup CatalogRows(DB) : row.restaurantId \in Ids(restaurants))
    /\ [][last'.op \in CreateOps =>
             /\ \A ud \in StoreUserInputs :
                   (ud.restaurantId \notin Ids(restaurants)
                    /\ AddUserWithin(ud, MaxStoreIds))
                   => (Failed /\ UNCHANGED <<restaurants, users, catalog>>)
             /\ \A product \in ProductInputs :
                   (product.restaurantId \notin Ids(restaurants) /\ AddProduct(product))
                   => (Failed /\ UNCHANGED <<restaurants, users, catalog>>)
             /\ \A category \in CategoryInputs :
                   (category.restaurantId \notin Ids(restaurants) /\ AddCategory(category))
                   => (Failed /\ UNCHANGED <<restaurants, users, catalog>>)
             /\ \A customer \in CustomerInputs :
                   (customer.restaurantId \notin Ids(restaurants) /\ AddCustomer(customer))
                   => (Failed /\ UNCHANGED <<restaurants, users, catalog>>)
             /\ \A purchase \in PurchaseInputs :
                   (purchase.restaurantId \notin Ids(restaurants) /\ AddPurchase(purchase))
                   => (Failed /\ UNCHANGED <<restaurants, users, catalog>>)
             /\ \A sale \in StoreSaleInputs :
                   (sale.restaurantId \notin Ids(restaurants) /\ AddSale(sale))
                   => (Failed /\ UNCHANGED <<restaurants, users, catalog>>)]_vars

\* An addSale naming no stored restaurant has just been refused, in a store
\* that has a restaurant with staff and rows of the catalog.
C27_Witness ==
    /\ last.op = "addSale"
    /\ last.result = "foreign_key"
    /\ \E u \in users : u.role = "waiter"
    /\ products # {}

----------------------------------------------------------------------------
\* The server process and its getDb calls (SpecDb).

GetDb ==
    LET out == getDb(process)
    IN /\ Len(returned) < MaxGetDbCalls
       /\ process' = out.process
       /\ returned' = Append(returned, out.result)
       /\ UNCHANGED <<restaurants, users, catalog, nextId, last, registered, calls,
                      sessionStorage, layout>>

\* The environment the process finds: DATABASE_URL given another value.
SetDatabaseUrl(url) ==
    /\ url # process.databaseUrl
    /\ process' = [process EXCEPT !.databaseUrl = url]
    /\ UNCHANGED <<restaurants, users, catalog, nextId, last, registered, calls,
                   returned, sessionStorage, layout>>

\* The module is evaluated again in the same process (a reload in
\* development): `let pool` starts unassigned, the global object keeps db.
ReloadModule ==
    /\ process.pool # Undefined
    /\ process' = [process EXCEPT !.pool = Undefined]
    /\ UNCHANGED <<restaurants, users, catalog, nextId, last, registered, calls,
                   returned, sessionStorage, layout>>

NextDb ==
    \/ GetDb
    \/ \E url \in DatabaseUrls : SetDatabaseUrl(url)
    \/ ReloadModule

SpecDb == Init /\ [][NextDb]_vars

\* C28: the process creates at most one pool and the getDb calls that return
\* all return the same instance; a call made with a DATABASE_URL that is a URL
\* returns an instance; a call made with DATABASE_URL not set and no instance
\* kept throws, creating no pool and keeping no instance.
C28_GetDbIsASingleton ==
    /\ [](process.poolsCreated <= 1)
    /\ [](\A i \in 1..Len(returned), j \in 1..Len(returned) :
             (returned[i] # Threw /\ returned[j] # Threw) => returned[i] = returned[j])
    /\ [][GetDb =>
             /\ ~CreatePoolThrows(process.databaseUrl)
                   => returned'[Len(returned')] # Threw
             /\ (process.databaseUrl = "" /\ process.globalDb = Undefined)
                   => (returned'[Len(returned')] = Threw /\ process' = process)]_vars

\* A getDb call threw with DATABASE_URL not set, later calls returned the
\* instance, the module has been evaluated again since, and the call after
\* that returned the instance too.
C28_Witness ==
    /\ Len(returned) >= 3
    /\ returned[1] = Threw
    /\ returned[Len(returned) - 1] # Threw
    /\ returned[Len(returned)] # Threw
    /\ process.pool = Undefined
    /\ process.poolsCreated = 1

----------------------------------------------------------------------------
\* The browser: the login form and the dashboard layout (SpecLogin).

\* The pair the login form lets in without looking the user up.
RecoveryEmail == "superadmin@example.com"

RecoveryPassword == "password123"

\* getAllRestaurantsWithUsers: the users, each under its restaurant.
AllRestaurantsUsers == {u \in users : u.restaurantId \in Ids(restaurants)}

\* The search of onSubmit with the comparison of the passwords left out.
FindLoggedInUserOfAnyPassword(us, email, password) == {u \in us : u.email = email}

\* The search of onSubmit: the user of this email whose stored password is
\* the one submitted.
FindLoggedInUser(us, email, password) ==
    {u \in us : u.email = email /\ u.password = password}

\* restaurantIdToSet.
ScopeOf(user) == IF user.role = "superadmin" THEN All ELSE user.restaurantId

\* What onSubmit stores for the user it lets in, before it pushes /dashboard.
SignIn(user, scope) ==
    /\ sessionStorage' = [sessionStorage EXCEPT !.loggedInUser = {user},
                                                !.activeRestaurantId = scope]
    /\ layout' = Unmounted("/dashboard")
    /\ last' = [op |-> "login", result |-> "ok", id |-> user.id, rows |-> {}]

\* What onSubmit does when it lets nobody in: a toast.
Refuse(result) ==
    /\ last' = [op |-> "login", result |-> result, id |-> NoSuchId, rows |-> {}]
    /\ UNCHANGED <<sessionStorage, layout>>

\* onSubmit of the login form. The recovery access takes the first superadmin
\* of the list, whose order the query does not fix.
Login(email, password) ==
    /\ layout.route = "/"
    /\ IF email = RecoveryEmail /\ password = RecoveryPassword
       THEN IF \E u \in AllRestaurantsUsers : u.role = "superadmin"
            THEN \E superAdminUser \in {u \in AllRestaurantsUsers : u.role = "superadmin"} :
                    SignIn(superAdminUser, All)
            ELSE Refuse("no_superadmin")
       ELSE IF FindLoggedInUser(AllRestaurantsUsers, email, password) # {}
            THEN \E loggedInUser \in FindLoggedInUser(AllRestaurantsUsers, email, password) :
                    SignIn(loggedInUser, ScopeOf(loggedInUser))
            ELSE Refuse("invalid_credentials")
    /\ UNCHANGED <<restaurants, users, catalog, nextId, registered, calls, process,
                   returned>>

\* The dashboard is opened: the layout is rendered with its initial state.
OpenDashboard ==
    /\ layout.route = "/"
    /\ layout' = Unmounted("/dashboard")
    /\ UNCHANGED <<restaurants, users, catalog, nextId, last, registered, calls,
                   process, returned, sessionStorage>>

\* The first effect of DashboardLayout.
MountLayout ==
    /\ layout.route = "/dashboard"
    /\ ~layout.isHydrated
    /\ IF sessionStorage.loggedInUser = {} THEN layout' = LoginPage
       ELSE \E currentUser \in sessionStorage.loggedInUser :
               layout' = [route |-> "/dashboard",
                          isHydrated |-> TRUE,
                          user |-> {currentUser},
                          activeRestaurantId |->
                             IF currentUser.role = "superadmin"
                             THEN IF sessionStorage.activeRestaurantId # Null
                                  THEN sessionStorage.activeRestaurantId ELSE All
                             ELSE IF sessionStorage.loggedInRestaurant # Null
                                  THEN sessionStorage.loggedInRestaurant
                                  ELSE layout.activeRestaurantId]
    /\ UNCHANGED <<restaurants, users, catalog, nextId, last, registered, calls,
                   process, returned, sessionStorage>>

\* The selector is rendered for a superadmin once restaurants are loaded.
SelectorShown ==
    /\ layout.isHydrated
    /\ \E user \in layout.user : user.role = "superadmin"
    /\ restaurants # {}

\* The entries of the selector.
SelectorInputs == {All} \cup Ids(restaurants)

\* handleRestaurantChange: the choice is stored and the page reloaded.
HandleRestaurantChange(newId) ==
    /\ SelectorShown
    /\ IF newId = layout.activeRestaurantId
       THEN UNCHANGED <<sessionStorage, layout>>
       ELSE /\ sessionStorage' = [sessionStorage EXCEPT !.activeRestaurantId = newId]
            /\ layout' = Unmounted("/dashboard")
    /\ UNCHANGED <<restaurants, users, catalog, nextId, last, registered, calls,
                   process, returned>>

HandleLogout ==
    /\ layout.isHydrated
    /\ sessionStorage' = EmptyStorage
    /\ layout' = LoginPage
    /\ UNCHANGED <<restaurants, users, catalog, nextId, last, registered, calls,
                   process, returned>>

\* What the login form is given.
LoginEmails == {"ana@x.com", "bob@x.com", RecoveryEmail}

LoginPasswords == {InitialPassword, RecoveryPassword, "mistyped"}

\* The administrators SpecLogin registers: one may take the recovery pair as
\* its own email and password.
LoginAdminInputs ==
    {[email |-> e, password |-> pw] : e \in LoginEmails,
                                      pw \in {InitialPassword, RecoveryPassword}}

NextLogin ==
    \/ \E rd \in NewRestaurantInputs, ad \in LoginAdminInputs : CreateRestaurant(rd, ad)
    \/ \E id \in RestaurantIdInputs : DeleteRestaurant(id)
    \/ \E email \in LoginEmails, password \in LoginPasswords : Login(email, password)
    \/ OpenDashboard
    \/ MountLayout
    \/ \E newId \in SelectorInputs : HandleRestaurantChange(newId)
    \/ HandleLogout

SpecLogin == Init /\ [][NextLogin]_vars

\* C29: the login form stores a session only for the user of the submitted
\* email whose stored password is the submitted one, except for the pair
\* superadmin@example.com / password123, which is let in as a stored
\* superadmin with the scope 'all' whatever the stored passwords, and which
\* stores no session when no superadmin is stored.
C29_LoginChecksThePassword ==
    [][last'.op = "login" =>
          \A email \in LoginEmails, password \in LoginPasswords :
             Login(email, password)
             => IF email = RecoveryEmail /\ password = RecoveryPassword
                THEN IF \E u \in users : u.role = "superadmin"
                     THEN /\ ~Failed
                          /\ \E u \in users :
                                /\ u.role = "superadmin"
                                /\ sessionStorage'.loggedInUser = {u}
                          /\ sessionStorage'.activeRestaurantId = All
                     ELSE Failed /\ UNCHANGED <<sessionStorage, layout>>
                ELSE IF \E u \in users : u.email = email /\ u.password = password
                     THEN /\ ~Failed
                          /\ \E u \in users :
                                /\ u.email = email
                                /\ u.password = password
                                /\ sessionStorage'.loggedInUser = {u}
                     ELSE Failed /\ UNCHANGED <<sessionStorage, layout>>]_vars

\* The recovery pair has just been submitted and refused, no session is
\* stored, and users are stored of whom none is a superadmin.
C29_Witness ==
    /\ last.op = "login"
    /\ last.result = "no_superadmin"
    /\ sessionStorage.loggedInUser = {}
    /\ users # {}

\* C30: a login other than the recovery access stores the scope 'all' for a
\* superadmin and the user's restaurant id for any other user; when the
\* dashboard layout mounts for a stored session its activeRestaurantId is the
\* scope stored, which for a user who is not a superadmin is the id of the
\* user's restaurant; and the selector changes the scope for a superadmin only.
C30_LayoutTakesTheSessionScope ==
    /\ [][last'.op = "login" =>
             \A email \in LoginEmails, password \in LoginPasswords :
                (/\ ~(email = RecoveryEmail /\ password = RecoveryPassword)
                 /\ Login(email, password)
                 /\ ~Failed)
                => \A user \in sessionStorage'.loggedInUser :
                      sessionStorage'.activeRestaurantId =
                         IF user.role = "superadmin" THEN All ELSE user.restaurantId]_vars
    /\ [][(MountLayout /\ layout'.isHydrated) =>
             /\ layout'.activeRestaurantId = sessionStorage.activeRestaurantId
             /\ \A user \in layout'.user :
                   user.role # "superadmin"
                   => layout'.activeRestaurantId = user.restaurantId]_vars
    /\ [][\A newId \in SelectorInputs :
             (/\ HandleRestaurantChange(newId)
              /\ sessionStorage'.activeRestaurantId # sessionStorage.activeRestaurantId)
             => \A user \in sessionStorage.loggedInUser : user.role = "superadmin"]_vars

====
